---- MODULE Spec2Model ----
(***************************************************************************)
(* A model of the GitHub deployment cleaner (gui.py): the client functions *)
(* fetch_status_async, run_async_tasks, list_deployments, mark_inactive    *)
(* and delete_deployment, and the worker threads of the window that drive  *)
(* single and bulk mutations.                                              *)
(***************************************************************************)
EXTENDS Naturals, Sequences, FiniteSets, TLC

\* ------------------------------------------------------------------ bounds
\* Largest number of deployments in one listing.
MaxDeps == 3
\* Largest number of status events in one status collection.
MaxStatuses == 2
\* Largest number of deployments the window holds when a mutation is asked.
MaxRows == 5
\* Largest number of deployments in a window that is filtered.
MaxShown == 2
\* Largest number of filter actions followed.
MaxFilterRuns == 2
\* Number of list tasks that can be alive at once.
MaxListTasks == 2
\* Largest number of calls of add_to_recent_repos followed.
MaxUses == 3

\* ------------------------------------------------------------ vocabulary
\* A key a dict does not hold (dict.get(key) gives None).
Absent == "<absent>"
\* The empty string, which Python takes as false like None.
EmptyStr == ""
\* No value held yet (a result slot not written, a call that has not returned).
NoValue == "<none>"

\* Python's truth of a statuses_url: `if statuses_url:`.
Truthy(v) == v # Absent /\ v # EmptyStr

Ids == 1..MaxDeps
\* The statuses_url GitHub gives the deployment with this id.
UrlOf(i) == "deployments/" \o ToString(i) \o "/statuses"
Urls == {UrlOf(i) : i \in Ids}
\* What the key statuses_url of a listed deployment can hold.
UrlValues(i) == {Absent, EmptyStr, UrlOf(i)}

\* The states a status event carries (an open vocabulary; two of them).
StatusStates == {"success", "inactive"}

\* Sequences over S of length lo..hi.
SeqsOf(S, lo, hi) == UNION {[1..n -> S] : n \in lo..hi}

\* ---------------------------------------------------------- HTTP responses
\* The status codes the code compares with.
HTTP_OK == 200
HTTP_CREATED == 201
HTTP_NO_CONTENT == 204
\* Line 525: the number of handles the file keeps.
RecentKept == 10
\* Other codes a server answers with: a 2xx that is not 200, and two errors.
OtherCodes == {202, 404, 500}

\* A status event of a status collection; its state key may be missing.
StatusEvents == [state : StatusStates \cup {Absent}]
StatusBodies == SeqsOf(StatusEvents, 0, MaxStatuses)

\* What client.get(statuses_url) can end in: an exception of the transport
\* (exc), or a response with a status code whose body json() either parses
\* to a list of objects (parses) or does not.
StatusResponses ==
    {[exc |-> TRUE, status_code |-> 0, parses |-> FALSE, body |-> <<>>]}
    \cup [exc : {FALSE}, status_code : {HTTP_OK} \cup OtherCodes, parses : {TRUE},
          body : StatusBodies]
    \cup [exc : {FALSE}, status_code : {HTTP_OK} \cup OtherCodes, parses : {FALSE},
          body : {<<>>}]

\* A value returned by a coroutine, or the exception it raised.
Returned(v) == [raised |-> FALSE, value |-> v]
Raised == [raised |-> TRUE, value |-> "exception"]

\* fetch_status_async without its except clause: a transport or parse failure
\* leaves the coroutine as an exception.
fetch_status_async_unguarded(response) ==
    IF response.exc \/ (response.status_code = HTTP_OK /\ ~response.parses)
    THEN Raised
    ELSE IF response.status_code = HTTP_OK
         THEN IF response.body # <<>>
              THEN Returned(IF response.body[1].state = Absent
                            THEN "pending" ELSE response.body[1].state)
              ELSE Returned("pending")
         ELSE Returned("unknown")

\* fetch_status_async(statuses_url), as a function of what the GET ended in.
fetch_status_async(response) ==
    IF response.exc
    THEN Returned("unknown")                       \* except Exception
    ELSE IF response.status_code = HTTP_OK
         THEN IF ~response.parses
              THEN Returned("unknown")             \* json() or [0] raises
              ELSE IF response.body # <<>>
                   THEN Returned(IF response.body[1].state = Absent
                                 THEN "pending"    \* .get("state", "pending")
                                 ELSE response.body[1].state)
                   ELSE Returned("pending")
         ELSE Returned("unknown")

\* What a coroutine can end in: fetch_status_async of some answer to its GET.
StatusOutcomes == {fetch_status_async(response) : response \in StatusResponses}

\* ------------------------------------------------------------- the listing
\* A deployment as the listing returns it: no state key yet.
RawDeployment(i, u) == [id |-> i, statuses_url |-> u, state |-> Absent]

IsInjective(s) == \A a, b \in DOMAIN s : a # b => s[a] # s[b]
IdSeqs == {s \in SeqsOf(Ids, 0, MaxDeps) : IsInjective(s)}

\* The listings: up to MaxDeps deployments with distinct ids, each with its
\* statuses_url, an empty one or none.
Listings ==
    UNION {{[k \in DOMAIN s |-> RawDeployment(s[k], u[k])] :
              u \in {f \in [DOMAIN s -> {Absent, EmptyStr} \cup Urls] :
                        \A k \in DOMAIN s : f[k] \in UrlValues(s[k])}} :
           s \in IdSeqs}

\* What requests.get(base_url) can end in: an exception of the transport, a
\* response that is not 200 (with or without a message), or a 200 whose body
\* parses to a listing or does not parse.
ListResponses ==
    {[exc |-> TRUE, status_code |-> 0, parses |-> FALSE, message |-> Absent,
      body |-> <<>>]}
    \cup [exc : {FALSE}, status_code : {HTTP_OK}, parses : {TRUE},
          message : {Absent}, body : Listings]
    \cup [exc : {FALSE}, status_code : {HTTP_OK}, parses : {FALSE},
          message : {Absent}, body : {<<>>}]
    \cup [exc : {FALSE}, status_code : OtherCodes,
          parses : {TRUE, FALSE}, message : {Absent, "Not Found"}, body : {<<>>}]

\* The error value list_deployments returns: {"error": error_msg}, kept as
\* the parts of its message (the status code, and the detail appended to it).
NoError == [status_code |-> 0, detail |-> NoValue]
\* Lines 95-100: "Failed to fetch deployments: <code>", then " - <message>"
\* when the body parses (the message key defaulting to "No details
\* available"); a body that does not parse adds nothing.
error_msg(response) ==
    [status_code |-> response.status_code,
     detail |-> IF ~response.parses THEN Absent
                ELSE IF response.message = Absent THEN "No details available"
                ELSE response.message]
\* Lines 126-128: "Failed to list deployments: <exception>".
exception_msg == [status_code |-> 0, detail |-> "exception"]

\* The values list_deployments returns.
NotReturned == [kind |-> "none", list |-> <<>>, error |-> NoError]
ReturnList(l) == [kind |-> "list", list |-> l, error |-> NoError]
ReturnError(e) == [kind |-> "error", list |-> <<>>, error |-> e]

\* A failed listing answered with an empty list.
failed_listing_as_empty(response) == ReturnList(<<>>)

\* Lines 94-102 and 126-128: what list_deployments returns when the listing
\* request raised, was not answered 200, or its body did not parse.
failed_listing(response) ==
    IF response.exc \/ (response.status_code = HTTP_OK /\ ~response.parses)
    THEN ReturnError(exception_msg)
    ELSE ReturnError(error_msg(response))

\* A status lookup scheduled for every deployment of the listing.
every_deployment(deps) == [k \in 1..Len(deps) |-> k]

\* Lines 110-115: deployments_with_tasks, as the positions in deployments of
\* the dicts it holds (the same objects): those with a true statuses_url.
with_tasks(deps) ==
    SelectSeq([k \in 1..Len(deps) |-> k], LAMBDA k : Truthy(deps[k].statuses_url))

\* Lines 111-117: the loop's effect on the dicts: state "unknown" where no
\* lookup is scheduled.
mark_unknown(deps, dwt) ==
    [k \in 1..Len(deps) |->
        IF \E j \in 1..Len(dwt) : dwt[j] = k
        THEN deps[k]
        ELSE [deps[k] EXCEPT !.state = "unknown"]]

Min(a, b) == IF a <= b THEN a ELSE b

\* The states zipped with the listing instead of deployments_with_tasks.
zip_with_listing(deps, dwt, states) ==
    [k \in 1..Len(deps) |->
        IF k <= Len(states) THEN [deps[k] EXCEPT !.state = states[k]] ELSE deps[k]]

\* Lines 122-123: for deployment, state in zip(deployments_with_tasks, states).
assign_states(deps, dwt, states) ==
    [k \in 1..Len(deps) |->
        IF \E j \in 1..Min(Len(dwt), Len(states)) : dwt[j] = k
        THEN [deps[k] EXCEPT !.state =
                 states[CHOOSE j \in 1..Min(Len(dwt), Len(states)) : dwt[j] = k]]
        ELSE deps[k]]

\* Only the deployments that were looked up are returned.
return_looked_up(deps, dwt) == [j \in 1..Len(dwt) |-> deps[dwt[j]]]

\* Line 125: return deployments.
returned_deployments(deps, dwt) == deps

\* The wait ends with the first coroutine that is done.
first_completed(t) == \E i \in 1..Len(t) : t[i] = "done"

\* Line 77: asyncio.gather is done when every coroutine is.
all_completed(t) == \A i \in 1..Len(t) : t[i] = "done"

\* ------------------------------------------------------------ mutations
\* What requests.post / requests.delete can end in: an exception of the
\* transport, or a response with a status code.
MutationResponses ==
    {[exc |-> TRUE, status_code |-> 0]}
    \cup [exc : {FALSE}, status_code : {HTTP_CREATED, HTTP_NO_CONTENT, 404}]

\* What mark_inactive and delete_deployment end in: a boolean returned, or
\* the exception of the request, which neither function catches.
ReturnedBool(b) == [raised |-> FALSE, value |-> b]
RaisedOut == [raised |-> TRUE, value |-> FALSE]

\* Lines 138-148: mark_inactive, as a function of what its POST ended in.
mark_inactive(response) ==
    IF response.exc
    THEN RaisedOut
    ELSE ReturnedBool(response.status_code = HTTP_CREATED)

\* Lines 158-167: delete_deployment, as a function of what its DELETE ended in.
delete_deployment(response) ==
    IF response.exc
    THEN RaisedOut
    ELSE ReturnedBool(response.status_code = HTTP_NO_CONTENT)

\* The client function a mutation of this kind calls.
mutate(kind, response) ==
    IF kind \in {"mark", "mark_all"}
    THEN mark_inactive(response)
    ELSE delete_deployment(response)

\* The HTTP method of a mutation of this kind.
MethodOf(kind) == IF kind \in {"mark", "mark_all"} THEN "POST" ELSE "DELETE"

\* Lines 908-909: the dicts of tree_data whose state is not "inactive".
active_deployments(td) == SelectSeq(td, LAMBDA dep : dep.state # "inactive")

\* Lines 954-955: the dicts of tree_data whose state is "inactive".
inactive_deployments(td) == SelectSeq(td, LAMBDA dep : dep.state = "inactive")

\* The answer of the confirmation is not looked at.
answer_ignored(yes) == "running"

\* Lines 880-883, 915-919 and 961-966: `if not messagebox.askyesno(...):
\* return`; on yes the thread is started.
after_askyesno(yes) == IF yes THEN "running" ELSE "returned"

\* A loop that takes an item again when its request was answered a failure.
retry_failed_item(i, last) ==
    IF i > 0 /\ ~last.raised /\ ~last.value THEN i ELSE i + 1

\* Lines 927 and 974: `for dep in ...` takes the item after the i items
\* already taken, whatever the last call returned.
next_item(i, last) == i + 1

\* A loop that counts the successes alone.
fail_count_forgotten(success, n) == n

\* Lines 930-931 and 977-978: if success: success_count += 1.
success_count_after(success, n) == IF success THEN n + 1 ELSE n

\* Lines 932-933 and 979-980: else: fail_count += 1.
fail_count_after(success, n) == IF success THEN n ELSE n + 1

\* Lines 937-941 and 984-988: the summary box; its text names the successes
\* and, when there are any, the failures.
summary_box(kind, s, f) ==
    [box |-> "showinfo", about |-> kind, id |-> 0, success_count |-> s,
     failed |-> IF f > 0 THEN <<f>> ELSE <<>>]

\* Lines 866-873 and 888-895: the box of a single mutation, naming the id.
single_box(kind, id, success) ==
    [box |-> IF success THEN "showinfo" ELSE "showerror", about |-> kind,
     id |-> id, success_count |-> IF success THEN 1 ELSE 0, failed |-> <<>>]

\* Lines 912 and 958: "No active deployments ..." / "No inactive ...".
nothing_box(kind) ==
    [box |-> "showinfo", about |-> kind, id |-> 0, success_count |-> 0,
     failed |-> <<>>]

\* The deployments the window holds: ids in the order of the listing (newest
\* first or oldest first), each with the state of its last fetch.
RowStates == {"success", "inactive"}
TreeData ==
    UNION {{[k \in 1..n |-> [id |-> IF down THEN n + 1 - k ELSE k, state |-> st[k]]] :
              st \in [1..n -> RowStates], down \in BOOLEAN} :
           n \in 0..MaxRows}

\* ------------------------------------------------------------------- state
VARIABLES
    pc,                      \* where list_deployments is
    listing,                 \* the answer its GET got (history)
    deployments,             \* response.json(), the dicts changed in place
    deployments_with_tasks,  \* positions in deployments of the looked-up dicts
    tasks,                   \* the statuses_url of each coroutine
    tpc,                     \* each coroutine: "created", "awaiting", "done"
    results,                 \* gather's result slot of each coroutine
    gets,                    \* status GETs issued, per requested locator
    served,                  \* what the lookup of each locator yielded (history)
    list_gets,               \* listing GETs issued
    ret,                     \* what list_deployments returned
    fs_pc,                   \* a coroutine run alone: where it is
    fs_response,             \* what its GET ends in
    fs_result,               \* what it returned or raised
    tree_data,               \* the window's deployments, in insertion order
    m_kind,                  \* the mutation asked: mark, delete, mark_all, delete_all
    m_pc,                    \* where the handler or its thread is
    m_id,                    \* the deployment of a single mutation
    targets,                 \* active_deployments / inactive_deployments
    idx,                     \* items the loop has taken
    success_count,
    fail_count,
    requests,                \* mutation requests issued, in order
    answers,                 \* what each ended in: a status code, 0 if it raised
    m_out,                   \* what the last call of the client function ended in
    confirms,                \* askyesno boxes shown, with the answer
    boxes,                   \* showinfo / showerror boxes shown
    refreshes,               \* self.list_deployments() calls after a mutation
    tree,                    \* the rows the treeview shows, in order
    next_row,                \* the number of the next row id Tk gives
    filter_var,              \* the text of the filter entry
    status_filter,           \* the category the combobox shows
    filters_run,             \* runs of filter_deployments so far
    fetched,                 \* what the last finished list task fetched (history)
    lt,                      \* the list tasks: where each is, what it fetched
    recent_repos,            \* self.recent_repos
    recent_file,             \* "repos" of recent_repos.json
    used,                    \* the handles used, most recent first (history)
    uses                     \* calls of add_to_recent_repos so far

enrich_vars == <<pc, listing, deployments, deployments_with_tasks, tasks, tpc,
                 results, gets, served, list_gets, ret>>

status_vars == <<fs_pc, fs_response, fs_result>>

mutation_vars == <<tree_data, m_kind, m_pc, m_id, targets, idx, success_count,
                   fail_count, requests, answers, m_out, confirms, boxes,
                   refreshes>>

window_vars == <<tree, next_row, filter_var, status_filter, filters_run, fetched, lt>>

recent_vars == <<recent_repos, recent_file, used, uses>>

vars == <<enrich_vars, status_vars, mutation_vars, window_vars, recent_vars>>

\* What the steps of list_deployments leave alone, those of the coroutine
\* and those of a mutation.
beside_enrich == <<status_vars, mutation_vars, window_vars, recent_vars>>
beside_status == <<enrich_vars, mutation_vars, window_vars, recent_vars>>
beside_mutation == <<enrich_vars, status_vars, window_vars, recent_vars>>
\* What the steps of the window (filter, list tasks) leave alone besides the
\* mutation, and what the uses of a repository leave alone.
beside_window == <<enrich_vars, status_vars, recent_vars>>
beside_recent == <<enrich_vars, status_vars, mutation_vars, window_vars>>

NoListing == [exc |-> FALSE, status_code |-> 0, parses |-> FALSE,
              message |-> Absent, body |-> <<>>]
Locators == {Absent, EmptyStr} \cup Urls

EnrichInit ==
    /\ pc = "idle"
    /\ listing = NoListing
    /\ deployments = <<>>
    /\ deployments_with_tasks = <<>>
    /\ tasks = <<>>
    /\ tpc = <<>>
    /\ results = <<>>
    /\ gets = [u \in Locators |-> 0]
    /\ served = [u \in Locators |-> NoValue]
    /\ list_gets = 0
    /\ ret = NotReturned

\* Line 93: list_deployments(base_url) issues its GET. (The window calls it
\* with the base_url of get_base_url, never None: lines 759-761.)
list_deployments_get ==
    /\ pc = "idle"
    /\ pc' = "requesting"
    /\ list_gets' = list_gets + 1
    /\ UNCHANGED <<listing, deployments, deployments_with_tasks, tasks, tpc,
                   results, gets, served, ret>>
    /\ UNCHANGED beside_enrich

\* Lines 93-120: the GET ends; on a failure the error is returned, on an empty
\* listing the empty list; else the coroutines are created and, if there is
\* one, run_async_tasks starts; with none the deployments are returned.
list_deployments_response ==
    /\ pc = "requesting"
    /\ \E response \in ListResponses :
        /\ listing' = response
        /\ IF response.exc \/ response.status_code # HTTP_OK \/ ~response.parses
           THEN /\ ret' = failed_listing(response)
                /\ pc' = "returned"
                /\ UNCHANGED <<deployments, deployments_with_tasks, tasks, tpc,
                               results>>
           ELSE IF response.body = <<>>
           THEN /\ ret' = ReturnList(<<>>)
                /\ pc' = "returned"
                /\ UNCHANGED <<deployments, deployments_with_tasks, tasks, tpc,
                               results>>
           ELSE LET dwt == with_tasks(response.body)
                    deps == mark_unknown(response.body, dwt)
                IN  /\ deployments' = deps
                    /\ deployments_with_tasks' = dwt
                    /\ tasks' = [j \in 1..Len(dwt) |-> deps[dwt[j]].statuses_url]
                    /\ tpc' = [j \in 1..Len(dwt) |-> "created"]
                    /\ results' = [j \in 1..Len(dwt) |-> Returned(NoValue)]
                    /\ IF dwt # <<>>
                       THEN pc' = "gathering" /\ ret' = ret
                       ELSE /\ pc' = "returned"
                            /\ ret' = ReturnList(returned_deployments(deps, dwt))
    /\ UNCHANGED <<gets, served, list_gets>>
    /\ UNCHANGED beside_enrich

\* Lines 54-55: a coroutine starts on the loop and issues its GET.
fetch_status_get(i) ==
    /\ pc = "gathering"
    /\ tpc[i] = "created"
    /\ tpc' = [tpc EXCEPT ![i] = "awaiting"]
    /\ gets' = [gets EXCEPT ![tasks[i]] = @ + 1]
    /\ UNCHANGED <<pc, listing, deployments, deployments_with_tasks, tasks,
                   results, served, list_gets, ret>>
    /\ UNCHANGED beside_enrich

\* Lines 55-69: the GET of a coroutine ends and the coroutine is done, its
\* value in its slot. A coroutine that raised would end gather at once, and
\* list_deployments with it (line 77, then lines 126-128).
fetch_status_done(i) ==
    /\ pc = "gathering"
    /\ tpc[i] = "awaiting"
    /\ \E out \in StatusOutcomes :
        /\ tpc' = [tpc EXCEPT ![i] = "done"]
        /\ results' = [results EXCEPT ![i] = out]
        /\ served' = [served EXCEPT ![tasks[i]] =
                         IF out.raised THEN "raised" ELSE out.value]
        /\ IF out.raised
           THEN pc' = "returned" /\ ret' = ReturnError(exception_msg)
           ELSE pc' = pc /\ ret' = ret
    /\ UNCHANGED <<listing, deployments, deployments_with_tasks, tasks, gets,
                   list_gets>>
    /\ UNCHANGED beside_enrich

\* Lines 77-78 and 120-125: gather is done, run_async_tasks returns the
\* slots in the order of the coroutines, the states are assigned and the
\* deployments returned.
run_async_tasks_return ==
    /\ pc = "gathering"
    /\ all_completed(tpc)
    /\ LET states == [j \in 1..Len(results) |-> results[j].value]
           deps == assign_states(deployments, deployments_with_tasks, states)
       IN  /\ deployments' = deps
           /\ ret' = ReturnList(returned_deployments(deps, deployments_with_tasks))
    /\ pc' = "returned"
    /\ UNCHANGED <<listing, deployments_with_tasks, tasks, tpc, results, gets,
                   served, list_gets>>
    /\ UNCHANGED beside_enrich

EnrichNext ==
    \/ list_deployments_get
    \/ list_deployments_response
    \/ \E i \in 1..Len(tasks) : fetch_status_get(i)
    \/ \E i \in 1..Len(tasks) : fetch_status_done(i)
    \/ run_async_tasks_return

\* ------------------------------------- fetch_status_async, run on its own
\* The coroutine is not run.
StatusIdle ==
    /\ fs_pc = "idle"
    /\ fs_response = [exc |-> TRUE, status_code |-> 0, parses |-> FALSE, body |-> <<>>]
    /\ fs_result = Returned(NoValue)

\* One coroutine, and what the server will answer it.
StatusInit ==
    /\ fs_pc = "created"
    /\ fs_response \in StatusResponses
    /\ fs_result = Returned(NoValue)

\* Lines 54-55: the GET is issued.
fetch_status_async_get ==
    /\ fs_pc = "created"
    /\ fs_pc' = "awaiting"
    /\ UNCHANGED <<fs_response, fs_result>>
    /\ UNCHANGED beside_status

\* Lines 55-69: the GET ends and the coroutine returns.
fetch_status_async_return ==
    /\ fs_pc = "awaiting"
    /\ fs_pc' = "done"
    /\ fs_result' = fetch_status_async(fs_response)
    /\ UNCHANGED fs_response
    /\ UNCHANGED beside_status

StatusNext ==
    \/ fetch_status_async_get
    \/ fetch_status_async_return

\* ------------------------------------------------ single and bulk mutations
SingleKinds == {"mark", "delete"}
BulkKinds == {"mark_all", "delete_all"}

\* No mutation is asked, and the window holds nothing.
MutationIdle ==
    /\ tree_data = <<>>
    /\ m_kind = "none"
    /\ m_pc = "idle"
    /\ m_id = 0
    /\ targets = <<>>
    /\ idx = 0
    /\ success_count = 0
    /\ fail_count = 0
    /\ requests = <<>>
    /\ answers = <<>>
    /\ m_out = ReturnedBool(FALSE)
    /\ confirms = <<>>
    /\ boxes = <<>>
    /\ refreshes = 0

\* The window after a fetch, before any mutation is asked. (The owner and the
\* repository are entered, so get_base_url gives a base_url: lines 606-621.)
MutationInit ==
    /\ tree_data \in TreeData
    /\ m_kind = "none"
    /\ m_pc = "idle"
    /\ m_id = 0
    /\ targets = <<>>
    /\ idx = 0
    /\ success_count = 0
    /\ fail_count = 0
    /\ requests = <<>>
    /\ answers = <<>>
    /\ m_out = ReturnedBool(FALSE)
    /\ confirms = <<>>
    /\ boxes = <<>>
    /\ refreshes = 0

\* Lines 799-838 and 862-877: "Mark as Inactive" of a row's menu, offered
\* when the row is not inactive; the thread is started.
threaded_mark_inactive ==
    /\ m_pc = "idle"
    /\ \E k \in 1..Len(tree_data) :
        /\ tree_data[k].state # "inactive"
        /\ m_id' = tree_data[k].id
    /\ m_kind' = "mark"
    /\ m_pc' = "running"
    /\ UNCHANGED <<tree_data, targets, idx, success_count, fail_count, requests,
                   answers, m_out, confirms, boxes, refreshes>>
    /\ UNCHANGED beside_mutation

\* Lines 799-844 and 879-883: "Delete Deployment" of a row's menu; the
\* confirmation naming the id is shown.
threaded_delete_deployment ==
    /\ m_pc = "idle"
    /\ \E k \in 1..Len(tree_data) : m_id' = tree_data[k].id
    /\ m_kind' = "delete"
    /\ m_pc' = "confirm"
    /\ UNCHANGED <<tree_data, targets, idx, success_count, fail_count, requests,
                   answers, m_out, confirms, boxes, refreshes>>
    /\ UNCHANGED beside_mutation

\* Lines 901-919: mark_all_inactive up to its confirmation; with nothing to
\* mark, the box saying so and return.
mark_all_inactive ==
    /\ m_pc = "idle"
    /\ m_kind' = "mark_all"
    /\ targets' = active_deployments(tree_data)
    /\ IF active_deployments(tree_data) = <<>>
       THEN m_pc' = "returned" /\ boxes' = Append(boxes, nothing_box("mark_all"))
       ELSE m_pc' = "confirm" /\ boxes' = boxes
    /\ UNCHANGED <<tree_data, m_id, idx, success_count, fail_count, requests,
                   answers, m_out, confirms, refreshes>>
    /\ UNCHANGED beside_mutation

\* Lines 947-966: delete_all_inactive up to its confirmation; with nothing to
\* delete, the box saying so and return.
delete_all_inactive ==
    /\ m_pc = "idle"
    /\ m_kind' = "delete_all"
    /\ targets' = inactive_deployments(tree_data)
    /\ IF inactive_deployments(tree_data) = <<>>
       THEN m_pc' = "returned" /\ boxes' = Append(boxes, nothing_box("delete_all"))
       ELSE m_pc' = "confirm" /\ boxes' = boxes
    /\ UNCHANGED <<tree_data, m_id, idx, success_count, fail_count, requests,
                   answers, m_out, confirms, refreshes>>
    /\ UNCHANGED beside_mutation

\* Lines 880-883, 915-919 and 961-966: the user answers askyesno; on yes the
\* thread is started, on no the handler returns.
askyesno_answer ==
    /\ m_pc = "confirm"
    /\ \E yes \in BOOLEAN :
        /\ confirms' = Append(confirms,
              [about |-> m_kind, id |-> m_id, count |-> Len(targets), answer |-> yes])
        /\ m_pc' = after_askyesno(yes)
    /\ UNCHANGED <<tree_data, m_kind, m_id, targets, idx, success_count,
                   fail_count, requests, answers, m_out, boxes, refreshes>>
    /\ UNCHANGED beside_mutation

\* Lines 865 and 887 (140, 159): the thread of a single mutation issues its
\* request.
single_request ==
    /\ m_pc = "running"
    /\ m_kind \in SingleKinds
    /\ requests' = Append(requests, [method |-> MethodOf(m_kind), id |-> m_id])
    /\ m_pc' = "awaiting"
    /\ UNCHANGED <<tree_data, m_kind, m_id, targets, idx, success_count,
                   fail_count, answers, m_out, confirms, boxes, refreshes>>
    /\ UNCHANGED beside_mutation

\* Lines 865-873 and 887-895: the request ends; the box naming the id is
\* shown. An exception of the request leaves the function and the thread.
single_response ==
    /\ m_pc = "awaiting"
    /\ m_kind \in SingleKinds
    /\ \E response \in MutationResponses :
        LET out == mutate(m_kind, response)
        IN  /\ answers' = Append(answers, response.status_code)
            /\ m_out' = out
            /\ IF out.raised
               THEN m_pc' = "crashed" /\ boxes' = boxes
               ELSE /\ m_pc' = "notified"
                    /\ boxes' = Append(boxes, single_box(m_kind, m_id, out.value))
    /\ UNCHANGED <<tree_data, m_kind, m_id, targets, idx, success_count,
                   fail_count, requests, confirms, refreshes>>
    /\ UNCHANGED beside_mutation

\* Lines 927-929 and 974-976: the loop takes the next deployment and issues
\* its request.
bulk_request ==
    /\ m_pc = "running"
    /\ m_kind \in BulkKinds
    /\ idx < Len(targets)
    /\ idx' = next_item(idx, m_out)
    /\ requests' = Append(requests,
          [method |-> MethodOf(m_kind), id |-> targets[next_item(idx, m_out)].id])
    /\ m_pc' = "awaiting"
    /\ UNCHANGED <<tree_data, m_kind, m_id, targets, success_count, fail_count,
                   answers, m_out, confirms, boxes, refreshes>>
    /\ UNCHANGED beside_mutation

\* Lines 929-934 and 976-981: the request ends and its outcome is counted.
\* An exception of the request leaves the function, the loop and the thread.
bulk_response ==
    /\ m_pc = "awaiting"
    /\ m_kind \in BulkKinds
    /\ \E response \in MutationResponses :
        LET out == mutate(m_kind, response)
        IN  /\ answers' = Append(answers, response.status_code)
            /\ m_out' = out
            /\ IF out.raised
               THEN /\ m_pc' = "crashed"
                    /\ UNCHANGED <<success_count, fail_count>>
               ELSE /\ m_pc' = "running"
                    /\ success_count' = success_count_after(out.value, success_count)
                    /\ fail_count' = fail_count_after(out.value, fail_count)
    /\ UNCHANGED <<tree_data, m_kind, m_id, targets, idx, requests, confirms,
                   boxes, refreshes>>
    /\ UNCHANGED beside_mutation

\* Lines 936-941 and 983-988: the loop is over; the summary box is shown.
bulk_summary ==
    /\ m_pc = "running"
    /\ m_kind \in BulkKinds
    /\ idx = Len(targets)
    /\ boxes' = Append(boxes, summary_box(m_kind, success_count, fail_count))
    /\ m_pc' = "notified"
    /\ UNCHANGED <<tree_data, m_kind, m_id, targets, idx, success_count,
                   fail_count, requests, answers, m_out, confirms, refreshes>>
    /\ UNCHANGED beside_mutation

\* Lines 874-875, 896-897, 942-943 and 989-990: the box is closed and the
\* thread calls self.list_deployments().
refresh_after_mutation ==
    /\ m_pc = "notified"
    /\ refreshes' = refreshes + 1
    /\ m_pc' = "done"
    /\ UNCHANGED <<tree_data, m_kind, m_id, targets, idx, success_count,
                   fail_count, requests, answers, m_out, confirms, boxes>>
    /\ UNCHANGED beside_mutation

MutationNext ==
    \/ threaded_mark_inactive
    \/ threaded_delete_deployment
    \/ mark_all_inactive
    \/ delete_all_inactive
    \/ askyesno_answer
    \/ single_request
    \/ single_response
    \/ bulk_request
    \/ bulk_response
    \/ bulk_summary
    \/ refresh_after_mutation

\* ------------------------------------------------------ the filter, the rows
ListTasks == 1..MaxListTasks
\* A list task that is not started.
NoTask == [pc |-> "idle", ok |-> FALSE, got |-> <<>>, shown |-> 0]

\* The window as __init__ leaves it (lines 184, 402-411): no row, no filter.
\* (Specifications that do not follow the rows keep it so.)
WindowIdle ==
    /\ tree = <<>>
    /\ next_row = 1
    /\ filter_var = <<>>
    /\ status_filter = "All"
    /\ filters_run = 0
    /\ fetched = <<>>
    /\ lt = [t \in ListTasks |-> NoTask]

\* Texts are kept as sequences of characters.
Lower(c) == IF c = "M" THEN "m" ELSE c
\* str.lower().
LowerStr(text) == [k \in 1..Len(text) |-> Lower(text[k])]
\* `a in b` of two strings.
Substring(a, b) ==
    \E i \in 0..Len(b) : i + Len(a) <= Len(b) /\ SubSeq(b, i + 1, i + Len(a)) = a

\* str(dep.get("id")) for the ids of one digit.
IdChars(i) == <<ToString(i)>>
\* The characters of a state.
StateChars(st) ==
    CASE st = "success" -> <<"s", "u", "c", "c", "e", "s", "s">>
      [] st = "inactive" -> <<"i", "n", "a", "c", "t", "i", "v", "e">>
      [] OTHER -> <<"?">>
\* A category of the combobox in lower case.
LowerWord(w) ==
    CASE w = "All" -> "all"
      [] w = "Active" -> "active"
      [] w = "Inactive" -> "inactive"
      [] w = "Success" -> "success"
      [] OTHER -> w

\* Lines 647-656: text_match, the filter text already in lower case.
text_match(dep, filter_text) ==
    \/ Substring(filter_text, IdChars(dep.id))
    \/ Substring(filter_text, LowerStr(dep.ref))
    \/ Substring(filter_text, LowerStr(dep.environment))
    \/ Substring(filter_text, StateChars(dep.state))

\* Lines 659-664: status_match, the category already in lower case.
status_match(dep, category) ==
    IF category # "all"
    THEN IF category = "active"
         THEN dep.state # "inactive"
         ELSE dep.state = category
    ELSE TRUE

\* Lines 636-667: filter_deployments over the dict td, the next row id being
\* row. Every row is deleted; the loop over td.items() calls
\* display_deployment for the first entry that matches, which inserts a row
\* and stores the dict in td under the new row id; the dict having grown, the
\* next step of the iteration raises RuntimeError and the handler ends there
\* (Tk reports the exception of a callback and goes on). With no match the
\* loop ends and nothing is shown.
filter_run(td, row, text, category) ==
    LET hits == {k \in 1..Len(td) :
                    /\ text_match(td[k], LowerStr(text))
                    /\ status_match(td[k], LowerWord(category))}
    IN  IF hits = {}
        THEN [tree |-> <<>>, tree_data |-> td, next_row |-> row]
        ELSE LET k == CHOOSE h \in hits : \A g \in hits : h <= g
                 shown == [td[k] EXCEPT !.row = row]
             IN  [tree |-> <<shown>>, tree_data |-> Append(td, shown),
                  next_row |-> row + 1]

\* The texts typed and the categories chosen.
FilterTexts == {<<>>, <<"1">>, <<"m">>, <<"M">>, <<"s">>}
Categories == {"All", "Active", "Inactive", "Success"}

\* The deployments a fetch has put in the window: rows 1..n in the order of
\* the listing, ids distinct.
Refs == {<<"m">>, <<"M", "1">>}
Environments == {<<"p">>}
WindowDeployments(n) ==
    {[k \in 1..n |-> [row |-> k, id |-> k, ref |-> r[k], environment |-> e[k],
                      state |-> st[k]]] :
        r \in [1..n -> Refs], e \in [1..n -> Environments],
        st \in [1..n -> RowStates]}

\* The window after a fetch of up to MaxShown deployments, unfiltered.
FilterInit ==
    /\ \E n \in 0..MaxShown : tree_data \in WindowDeployments(n)
    /\ tree = tree_data
    /\ fetched = tree_data
    /\ next_row = Len(tree_data) + 1
    /\ filter_var = <<>>
    /\ status_filter = "All"
    /\ filters_run = 0
    /\ lt = [t \in ListTasks |-> NoTask]
    /\ m_kind = "none"
    /\ m_pc = "idle"
    /\ m_id = 0
    /\ targets = <<>>
    /\ idx = 0
    /\ success_count = 0
    /\ fail_count = 0
    /\ requests = <<>>
    /\ answers = <<>>
    /\ m_out = ReturnedBool(FALSE)
    /\ confirms = <<>>
    /\ boxes = <<>>
    /\ refreshes = 0

\* Lines 405 and 636-672: the user changes the text of the filter entry; the
\* trace of filter_var runs filter_deployments.
filter_typed ==
    /\ m_kind = "none"
    /\ filters_run < MaxFilterRuns
    /\ \E text \in FilterTexts \ {filter_var} :
        LET run == filter_run(tree_data, next_row, text, status_filter)
        IN  /\ filter_var' = text
            /\ tree' = run.tree
            /\ tree_data' = run.tree_data
            /\ next_row' = run.next_row
    /\ filters_run' = filters_run + 1
    /\ UNCHANGED <<status_filter, fetched, lt>>
    /\ UNCHANGED <<m_kind, m_pc, m_id, targets, idx, success_count, fail_count,
                   requests, answers, m_out, confirms, boxes, refreshes>>
    /\ UNCHANGED beside_window

\* Lines 413 and 636-672: the user chooses a category; <<ComboboxSelected>>
\* runs filter_deployments.
status_selected ==
    /\ m_kind = "none"
    /\ filters_run < MaxFilterRuns
    /\ \E category \in Categories :
        LET run == filter_run(tree_data, next_row, filter_var, category)
        IN  /\ status_filter' = category
            /\ tree' = run.tree
            /\ tree_data' = run.tree_data
            /\ next_row' = run.next_row
    /\ filters_run' = filters_run + 1
    /\ UNCHANGED <<filter_var, fetched, lt>>
    /\ UNCHANGED <<m_kind, m_pc, m_id, targets, idx, success_count, fail_count,
                   requests, answers, m_out, confirms, boxes, refreshes>>
    /\ UNCHANGED beside_window

\* Lines 674-678: clear_filter. filter_var.set("") runs filter_deployments by
\* the trace, under the category still chosen; then the category is set to
\* "All" and filter_deployments is called again.
clear_filter ==
    /\ m_kind = "none"
    /\ filters_run < MaxFilterRuns
    /\ LET first == filter_run(tree_data, next_row, <<>>, status_filter)
           second == filter_run(first.tree_data, first.next_row, <<>>, "All")
       IN  /\ tree' = second.tree
           /\ tree_data' = second.tree_data
           /\ next_row' = second.next_row
    /\ filter_var' = <<>>
    /\ status_filter' = "All"
    /\ filters_run' = filters_run + 1
    /\ UNCHANGED <<fetched, lt>>
    /\ UNCHANGED <<m_kind, m_pc, m_id, targets, idx, success_count, fail_count,
                   requests, answers, m_out, confirms, boxes, refreshes>>
    /\ UNCHANGED beside_window

\* ------------------------------------------------------------ the list tasks
\* What the fetch of a list task returns: the error dict, or a list of up to
\* MaxShown deployments (row 0: not displayed yet).
ListFetches ==
    UNION {{[k \in 1..n |-> [row |-> 0, id |-> k, ref |-> <<"m">>,
                             environment |-> <<"p">>, state |-> st[k]]] :
               st \in [1..n -> RowStates]} : n \in 0..MaxShown}

\* Lines 711-745: display_deployment(dep): the row is inserted at the end of
\* the tree and the dict is stored in tree_data under the id of the new row.
display_deployment(tr, td, row, dep) ==
    [tree |-> Append(tr, [dep EXCEPT !.row = row]),
     tree_data |-> Append(td, [dep EXCEPT !.row = row]),
     next_row |-> row + 1]

\* What the steps of a list task leave alone.
beside_list ==
    <<filter_var, status_filter, filters_run, m_kind, m_pc, m_id, targets, idx,
      success_count, fail_count, requests, answers, m_out, confirms, boxes,
      refreshes>>

\* Lines 758-797 with 501-505, 875, 897, 943, 990: list_deployments is called
\* (the button, F5, Ctrl-R, or the refresh of a mutation thread) and starts a
\* thread on task, whether or not another task is running.
list_deployments_start(t) ==
    /\ lt[t].pc = "idle"
    /\ lt' = [lt EXCEPT ![t].pc = "started"]
    /\ UNCHANGED <<tree, tree_data, next_row, fetched>>
    /\ UNCHANGED beside_list
    /\ UNCHANGED beside_window

\* Line 768: self.tree.delete(*self.tree.get_children()).
task_clear_tree(t) ==
    /\ lt[t].pc = "started"
    /\ tree' = <<>>
    /\ lt' = [lt EXCEPT ![t].pc = "tree_cleared"]
    /\ UNCHANGED <<tree_data, next_row, fetched>>
    /\ UNCHANGED beside_list
    /\ UNCHANGED beside_window

\* Line 769: self.tree_data.clear().
task_clear_data(t) ==
    /\ lt[t].pc = "tree_cleared"
    /\ tree_data' = <<>>
    /\ lt' = [lt EXCEPT ![t].pc = "fetching"]
    /\ UNCHANGED <<tree, next_row, fetched>>
    /\ UNCHANGED beside_list
    /\ UNCHANGED beside_window

\* Lines 771-778: list_deployments(base_url) returns; an error dict is
\* reported and the task returns.
task_fetch_error(t) ==
    /\ lt[t].pc = "fetching"
    /\ lt' = [lt EXCEPT ![t].pc = "done"]
    /\ fetched' = <<>>
    /\ UNCHANGED <<tree, tree_data, next_row>>
    /\ UNCHANGED beside_list
    /\ UNCHANGED beside_window

\* Lines 771-773: list_deployments(base_url) returns a list.
task_fetch_list(t) ==
    /\ lt[t].pc = "fetching"
    /\ \E got \in ListFetches :
        /\ lt' = [lt EXCEPT ![t] = [pc |-> "displaying", ok |-> TRUE,
                                    got |-> got, shown |-> 0]]
        /\ fetched' = got
    /\ UNCHANGED <<tree, tree_data, next_row>>
    /\ UNCHANGED beside_list
    /\ UNCHANGED beside_window

\* Lines 781-782: one turn of `for dep in deployments:
\* self.display_deployment(dep)`.
task_display(t) ==
    /\ lt[t].pc = "displaying"
    /\ lt[t].shown < Len(lt[t].got)
    /\ LET shown == display_deployment(tree, tree_data, next_row,
                                       lt[t].got[lt[t].shown + 1])
       IN  /\ tree' = shown.tree
           /\ tree_data' = shown.tree_data
           /\ next_row' = shown.next_row
    /\ lt' = [lt EXCEPT ![t].shown = @ + 1]
    /\ UNCHANGED fetched
    /\ UNCHANGED beside_list
    /\ UNCHANGED beside_window

\* Lines 784-795: the loop is over; the count is reported and the task ends.
task_return(t) ==
    /\ lt[t].pc = "displaying"
    /\ lt[t].shown = Len(lt[t].got)
    /\ lt' = [lt EXCEPT ![t].pc = "done"]
    /\ UNCHANGED <<tree, tree_data, next_row, fetched>>
    /\ UNCHANGED beside_list
    /\ UNCHANGED beside_window

\* ------------------------------------------------- the recent repositories
\* The owners and the repository names given, the empty string among them.
OwnerNames == <<"a", "b", "c">>
RepoNames == <<"1", "2", "3", "4">>
Owners == {EmptyStr} \cup {OwnerNames[k] : k \in 1..Len(OwnerNames)}
Repos == {EmptyStr} \cup {RepoNames[k] : k \in 1..Len(RepoNames)}
\* Line 534: f"{username}/{repo}".
repo_string(username, repo) == username \o "/" \o repo
Handles == {repo_string(o, r) : o \in Owners \ {EmptyStr}, r \in Repos \ {EmptyStr}}

\* The lists without a handle twice, of a given length.
DuplicateFree(list) == \A i, j \in 1..Len(list) : list[i] = list[j] => i = j
\* One order of the handles, to draw the loaded lists from.
SomeOrder ==
    [k \in 1..(Len(OwnerNames) * Len(RepoNames)) |->
        repo_string(OwnerNames[((k - 1) \div Len(RepoNames)) + 1],
                    RepoNames[((k - 1) % Len(RepoNames)) + 1])]

\* Lines 507-518, 187: nothing loaded (no file).
RecentIdle ==
    /\ recent_repos = <<>>
    /\ recent_file = <<>>
    /\ used = <<>>
    /\ uses = 0

\* The position of the first element of list equal to h (0 if none).
index(list, h) ==
    IF \E k \in 1..Len(list) : list[k] = h
    THEN CHOOSE k \in 1..Len(list) : list[k] = h /\ \A j \in 1..(k - 1) : list[j] # h
    ELSE 0

keep_existing(list, h) == list
\* Lines 536-537: list.remove(h) if h is in the list (the first occurrence).
remove(list, h) ==
    IF index(list, h) = 0
    THEN list
    ELSE SubSeq(list, 1, index(list, h) - 1) \o SubSeq(list, index(list, h) + 1, Len(list))

save_all(list) == list
\* Line 525: self.recent_repos[:10], what save_recent_repos writes.
saved_repos(list) == SubSeq(list, 1, Min(Len(list), RecentKept))

\* Lines 507-518, 187: the list loaded from a file this program wrote: up to
\* 10 handles, none twice. The history gives the loaded handles the times
\* before the first call, the first of the list the latest.
RecentInit ==
    /\ \E n \in 0..RecentKept : recent_repos = SubSeq(SomeOrder, 1, n)
    /\ recent_file = recent_repos
    /\ used = [h \in {recent_repos[k] : k \in 1..Len(recent_repos)} |->
                  0 - index(recent_repos, h)]
    /\ uses = 0

\* Lines 529-546: add_to_recent_repos(username, repo). The write of the file
\* is taken to succeed (a failure is logged and leaves the list as it is).
add_to_recent_repos ==
    /\ uses < MaxUses
    /\ uses' = uses + 1
    /\ \E username \in Owners, repo \in Repos :
        IF ~Truthy(username) \/ ~Truthy(repo)
        THEN UNCHANGED <<recent_repos, recent_file, used>>
        ELSE LET h == repo_string(username, repo)
                 list == <<h>> \o remove(recent_repos, h)
             IN  /\ recent_repos' = list
                 /\ recent_file' = saved_repos(list)
                 /\ used' = [g \in DOMAIN used \cup {h} |->
                                IF g = h THEN uses + 1 ELSE used[g]]
    /\ UNCHANGED beside_recent

\* ---------------------------------------------------------- specifications
\* list_deployments: one call, its listing and its status lookups.
Init == EnrichInit /\ StatusIdle /\ MutationIdle /\ WindowIdle /\ RecentIdle
Next == EnrichNext
Spec == Init /\ [][Next]_vars

\* The same, where the thread goes on while it can and every GET ends.
FairSpec ==
    /\ Spec
    /\ WF_vars(list_deployments_get)
    /\ WF_vars(list_deployments_response)
    /\ WF_vars(\E i \in 1..Len(tasks) : fetch_status_get(i))
    /\ WF_vars(\E i \in 1..Len(tasks) : fetch_status_done(i))
    /\ WF_vars(run_async_tasks_return)

\* fetch_status_async alone, over every answer to its GET.
SpecStatusInit ==
    EnrichInit /\ StatusInit /\ MutationIdle /\ WindowIdle /\ RecentIdle
SpecStatusNext == StatusNext
SpecStatus == SpecStatusInit /\ [][SpecStatusNext]_vars

\* One mutation asked of a window that holds any deployments.
SpecMutationInit ==
    EnrichInit /\ StatusIdle /\ MutationInit /\ WindowIdle /\ RecentIdle
SpecMutation == SpecMutationInit /\ [][MutationNext]_vars

\* A filled window that is filtered, then asked one bulk mutation.
SpecFilterInit == EnrichInit /\ StatusIdle /\ FilterInit /\ RecentIdle
SpecFilterNext ==
    \/ filter_typed
    \/ status_selected
    \/ clear_filter
    \/ mark_all_inactive
    \/ delete_all_inactive
    \/ askyesno_answer
    \/ bulk_request
    \/ bulk_response
    \/ bulk_summary
    \/ refresh_after_mutation
SpecFilter == SpecFilterInit /\ [][SpecFilterNext]_vars

\* The uses of repositories after a start with a loaded list.
SpecRecentInit == EnrichInit /\ StatusIdle /\ MutationIdle /\ WindowIdle /\ RecentInit
SpecRecentNext == add_to_recent_repos
SpecRecent == SpecRecentInit /\ [][SpecRecentNext]_vars

\* A filled window in which list tasks are started, one while another runs.
SpecListNext ==
    \/ \E t \in ListTasks : list_deployments_start(t)
    \/ \E t \in ListTasks : task_clear_tree(t)
    \/ \E t \in ListTasks : task_clear_data(t)
    \/ \E t \in ListTasks : task_fetch_error(t)
    \/ \E t \in ListTasks : task_fetch_list(t)
    \/ \E t \in ListTasks : task_display(t)
    \/ \E t \in ListTasks : task_return(t)
SpecList == SpecFilterInit /\ [][SpecListNext]_vars

\* One use of the client functions: the first fetch of a window that holds
\* nothing, or one mutation asked of a window that holds deployments.
FirstFetch == m_kind = "none" /\ tree_data = <<>>
NoFetch == pc = "idle"
SpecCallsNext ==
    \/ FirstFetch /\ list_deployments_get
    \/ FirstFetch /\ list_deployments_response
    \/ FirstFetch /\ \E i \in 1..Len(tasks) : fetch_status_get(i)
    \/ FirstFetch /\ \E i \in 1..Len(tasks) : fetch_status_done(i)
    \/ FirstFetch /\ run_async_tasks_return
    \/ NoFetch /\ threaded_mark_inactive
    \/ NoFetch /\ threaded_delete_deployment
    \/ NoFetch /\ mark_all_inactive
    \/ NoFetch /\ delete_all_inactive
    \/ NoFetch /\ askyesno_answer
    \/ NoFetch /\ single_request
    \/ NoFetch /\ single_response
    \/ NoFetch /\ bulk_request
    \/ NoFetch /\ bulk_response
    \/ NoFetch /\ bulk_summary
    \/ NoFetch /\ refresh_after_mutation
SpecCalls == SpecMutationInit /\ [][SpecCallsNext]_vars

\* ------------------------------------------------------------------ claims
\* The listing GET was answered 200 with a collection of deployments.
ListingSucceeded ==
    ~listing.exc /\ listing.status_code = HTTP_OK /\ listing.parses

\* The listing GET failed: an exception of the transport, a body that does
\* not parse, or a response that is not 2xx.
ListingFailed ==
    listing.exc \/ ~listing.parses \/ listing.status_code \notin 200..299

\* The deployments of the listing that have a true statuses_url.
LookedUp == {k \in 1..Len(listing.body) : Truthy(listing.body[k].statuses_url)}

\* C1: when list_deployments has returned after a listing that succeeded, it
\* returned a list as long as the raw listing, holding at each position the
\* deployment (id and statuses_url) the listing holds there, whatever the mix
\* of deployments with and without statuses_url and whatever the lookups gave.
C1_SameLengthSameOrder ==
    (pc = "returned" /\ ListingSucceeded) =>
        /\ ret.kind = "list"
        /\ Len(ret.list) = Len(listing.body)
        /\ \A k \in 1..Len(listing.body) :
              /\ ret.list[k].id = listing.body[k].id
              /\ ret.list[k].statuses_url = listing.body[k].statuses_url

\* A returned listing of at least two deployments, some looked up and some
\* not, one of the lookups absorbed as "unknown".
C1_Witness ==
    /\ pc = "returned" /\ ListingSucceeded /\ ret.kind = "list"
    /\ Len(ret.list) >= 2
    /\ LookedUp # {} /\ LookedUp # 1..Len(listing.body)
    /\ \E k \in LookedUp : served[listing.body[k].statuses_url] = "unknown"

\* The response is a 2xx.
Is2xx(response) == ~response.exc /\ response.status_code \in 200..299

\* C2 as stated: the coroutine never raises; a successful (2xx) response
\* with a non-empty collection gives the state field of the first element, a
\* successful one with an empty collection gives "pending", and a non-2xx
\* response or a transport or parse failure gives "unknown".
C2_ThreeOutcomesAsStated ==
    fs_pc = "done" =>
        /\ ~fs_result.raised
        /\ (Is2xx(fs_response) /\ fs_response.parses /\ fs_response.body # <<>>)
              => fs_result.value = fs_response.body[1].state
        /\ (Is2xx(fs_response) /\ fs_response.parses /\ fs_response.body = <<>>)
              => fs_result.value = "pending"
        /\ (~Is2xx(fs_response) \/ ~fs_response.parses)
              => fs_result.value = "unknown"

\* C2, amended: the coroutine never raises; a 200 response with a non-empty
\* collection gives the state field of the first element, whatever the length
\* of the collection, and "pending" when that element has no state field; a
\* 200 response with an empty collection gives "pending"; a response that is
\* not 200, or a transport or parse failure, gives "unknown".
C2_ThreeOutcomes ==
    fs_pc = "done" =>
        /\ ~fs_result.raised
        /\ LET ok == ~fs_response.exc /\ fs_response.status_code = HTTP_OK
                     /\ fs_response.parses
           IN  /\ (ok /\ fs_response.body # <<>>
                      /\ fs_response.body[1].state # Absent)
                     => fs_result.value = fs_response.body[1].state
               /\ (ok /\ fs_response.body # <<>>
                      /\ fs_response.body[1].state = Absent)
                     => fs_result.value = "pending"
               /\ (ok /\ fs_response.body = <<>>) => fs_result.value = "pending"
               /\ ~ok => fs_result.value = "unknown"

\* A 200 response whose collection holds two events of different states: the
\* first one's state is returned.
C2_Witness ==
    /\ fs_pc = "done"
    /\ ~fs_response.exc /\ fs_response.status_code = HTTP_OK /\ fs_response.parses
    /\ Len(fs_response.body) >= 2
    /\ fs_response.body[1].state = "inactive"
    /\ fs_response.body[2].state = "success"
    /\ fs_result = Returned("inactive")

\* C3: no status GET is ever issued for a locator that is none or empty, nor
\* more than one for any locator, nor any for a locator that no deployment of
\* the listing has; and in the list returned every deployment without a true
\* statuses_url has state "unknown" while every deployment with one has had
\* exactly one GET.
C3_LookupsOnlyWithUrl ==
    /\ gets[Absent] = 0 /\ gets[EmptyStr] = 0
    /\ \A u \in Urls :
          /\ gets[u] <= 1
          /\ gets[u] = 1 => \E k \in LookedUp : listing.body[k].statuses_url = u
    /\ (pc = "returned" /\ ret.kind = "list") =>
          \A k \in 1..Len(ret.list) :
              IF Truthy(ret.list[k].statuses_url)
              THEN gets[ret.list[k].statuses_url] = 1
              ELSE ret.list[k].state = "unknown"

\* The listing of three of section 8: success, pending, unknown in this order,
\* the third without statuses_url, and two GETs in all.
C3_Witness ==
    /\ pc = "returned" /\ ret.kind = "list" /\ Len(ret.list) = 3
    /\ ret.list[1].state = "success" /\ Truthy(ret.list[1].statuses_url)
    /\ ret.list[2].state = "pending" /\ Truthy(ret.list[2].statuses_url)
    /\ ret.list[3].state = "unknown" /\ ret.list[3].statuses_url = Absent
    /\ gets[ret.list[1].statuses_url] = 1 /\ gets[ret.list[2].statuses_url] = 1
    /\ Cardinality({u \in Locators : gets[u] > 0}) = 2

\* C4: a slot of gather holds what the lookup of its own coroutine's locator
\* yielded, and nothing before that lookup is done; and in the list returned
\* each deployment with a statuses_url has the state its own lookup yielded,
\* in every order of completion.
C4_OwnSlotOwnState ==
    /\ \A i \in 1..Len(tasks) :
          IF tpc[i] = "done"
          THEN results[i] = Returned(served[tasks[i]])
          ELSE results[i] = Returned(NoValue) /\ served[tasks[i]] = NoValue
    /\ (pc = "returned" /\ ret.kind = "list") =>
          \A k \in 1..Len(ret.list) :
              Truthy(ret.list[k].statuses_url) =>
                  ret.list[k].state = served[ret.list[k].statuses_url]

\* A returned list where a lookup that failed stands before one that gave
\* "success", after a deployment that was not looked up.
C4_Witness ==
    /\ pc = "returned" /\ ret.kind = "list" /\ Len(ret.list) = 3
    /\ ~Truthy(ret.list[1].statuses_url)
    /\ Truthy(ret.list[2].statuses_url) /\ ret.list[2].state = "unknown"
    /\ Truthy(ret.list[3].statuses_url) /\ ret.list[3].state = "success"

\* C5: list_deployments returns its list only when every coroutine it
\* scheduled is done, and a call that was started returns.
C5_JoinAll ==
    /\ []((pc = "returned" /\ ret.kind = "list") =>
             \A i \in 1..Len(tasks) : tpc[i] = "done")
    /\ (pc = "requesting") ~> (pc = "returned")

\* A list returned after two lookups or more, one of them absorbed.
C5_Witness ==
    /\ pc = "returned" /\ ret.kind = "list"
    /\ Len(tasks) >= 2
    /\ \A i \in 1..Len(tasks) : tpc[i] = "done"
    /\ \E i \in 1..Len(tasks) : results[i] = Returned("unknown")
    /\ \E i \in 1..Len(tasks) : results[i] = Returned("success")

SuccessCode == IF m_kind \in {"mark", "mark_all"} THEN HTTP_CREATED ELSE HTTP_NO_CONTENT

\* A call of mark_inactive or delete_deployment has ended.
CallEnded == answers # <<>> /\ Len(answers) = Len(requests)

\* The answers, among the first n, that were the success code.
Successes(n) == {k \in 1..n : answers[k] = SuccessCode}

\* C7: whenever a call of mark_inactive or delete_deployment has ended it has
\* returned a boolean and not raised: true exactly when the server answered
\* 201 (mark_inactive) or 204 (delete_deployment), false for every other
\* outcome of the call.
C7_TrueExactlyOnSuccessCode ==
    CallEnded =>
        /\ ~m_out.raised
        /\ m_out.value = (answers[Len(answers)] = SuccessCode)

\* C8: in a bulk the k-th request is for the k-th deployment of the input;
\* a request is issued only when every earlier item is counted; between items
\* success_count + fail_count is the number of items taken, the successes
\* being the items answered with the success code; and once the loop is over
\* success_count + fail_count is the length of the input.
C8_SequentialAndCounted ==
    m_kind \in BulkKinds =>
        /\ Len(requests) = idx /\ idx <= Len(targets)
        /\ \A k \in 1..Len(requests) :
              requests[k] = [method |-> MethodOf(m_kind), id |-> targets[k].id]
        /\ m_pc = "awaiting" => success_count + fail_count = idx - 1
        /\ m_pc = "running" =>
              /\ success_count + fail_count = idx
              /\ success_count = Cardinality(Successes(idx))
        /\ m_pc \in {"notified", "done"} =>
              /\ success_count + fail_count = Len(targets)
              /\ success_count = Cardinality(Successes(Len(targets)))
              /\ Len(requests) = Len(targets)

\* The bulk delete of section 8: five deployments, the third answered 404:
\* four successes and one failure.
C8_Witness ==
    /\ m_kind = "delete_all" /\ m_pc = "done"
    /\ Len(targets) = 5
    /\ answers = <<HTTP_NO_CONTENT, HTTP_NO_CONTENT, 404, HTTP_NO_CONTENT, HTTP_NO_CONTENT>>
    /\ success_count = 4 /\ fail_count = 1

\* C9: in a bulk no failure of an item leaves the loop, and every item that
\* failed, by its status code or by a failure of the transport, is counted
\* as failed: the thread ends only with every item of its input attempted.
C9_FailuresCountedNeverThrown ==
    m_kind \in BulkKinds =>
        /\ m_pc # "crashed"
        /\ CallEnded =>
              fail_count = Cardinality((1..Len(answers)) \ Successes(Len(answers)))
        /\ m_pc \in {"notified", "done", "crashed"} => Len(requests) = Len(targets)

\* C10: a thread that has ended has shown exactly one box: for a bulk the
\* summary with the final counts, for a single mutation the success or
\* failure box naming its deployment.
C10_EndedThreadHasNotified ==
    m_pc \in {"done", "crashed"} =>
        /\ Len(boxes) = 1
        /\ m_kind \in BulkKinds =>
              boxes[1] = summary_box(m_kind, success_count, fail_count)
        /\ m_kind \in SingleKinds =>
              /\ boxes[1].id = m_id
              /\ boxes[1].box = IF answers[1] = SuccessCode
                                THEN "showinfo" ELSE "showerror"

HandlesOf(list) == {list[k] : k \in 1..Len(list)}
\* The list without its element h.
Others(list, h) == SelectSeq(list, LAMBDA g : g # h)
\* A call of add_to_recent_repos with an empty owner or repository: a call
\* that gave no handle a new time of use.
EmptyCall == uses' = uses + 1 /\ used' = used

C20_NoDuplicateHeadIsLast ==
    /\ DuplicateFree(recent_repos)
    /\ HandlesOf(recent_repos) = DOMAIN used
    /\ \A h \in DOMAIN used : used[recent_repos[1]] >= used[h]

\* C20, the steps: a call that uses a handle puts it first and leaves the
\* others in their order; a call with an empty owner or repository leaves the
\* list and the file as they are.
C20_MoveToFrontOrNothing ==
    /\ uses' = uses + 1 /\ used' # used =>
        /\ used'[recent_repos'[1]] = uses'
        /\ Others(recent_repos', recent_repos'[1]) = Others(recent_repos, recent_repos'[1])
    /\ EmptyCall => recent_repos' = recent_repos /\ recent_file' = recent_file

\* C20: starting from a duplicate-free list, after any sequence of calls the
\* list in memory holds no handle twice and its first element is the most
\* recently used handle; re-using a handle moves it to the front without
\* changing the order of the others; a call with an empty owner or repository
\* changes neither the list nor the file.
C20_MoveToFront == [](C20_NoDuplicateHeadIsLast) /\ [][C20_MoveToFrontOrNothing]_vars

\* C20 witness: a loaded handle that was not first has been used again and is
\* first, before the others in their order, and the call after that one had
\* an empty owner or repository.
C20_Witness ==
    /\ uses > 1
    /\ \A h \in DOMAIN used : used[h] # uses
    /\ \E k \in 2..RecentKept, j \in 3..RecentKept :
        /\ k < j
        /\ SomeOrder[j] \in DOMAIN used
        /\ used[SomeOrder[j]] < 0
        /\ recent_repos[1] = SomeOrder[k]
        /\ used[SomeOrder[k]] = uses - 1

\* C19: every mutation that was started is followed by a fresh list fetch,
\* whether it succeeded or failed, and the refresh starts only after the last
\* request has completed and the notification has been shown. On the runs
\* followed to their end: a worker thread that has ended has called
\* list_deployments once, after its box.
C19_EndedThreadHasRefreshed ==
    /\ m_pc \in {"done", "crashed"} => refreshes = 1
    /\ refreshes > 0 => Len(boxes) = 1 /\ Len(answers) = Len(requests)

\* C14: filtering is a projection without side effect: a run of
\* filter_deployments or clear_filter, with any text and category, leaves
\* tree_data as it was, and so the total count and the deployments later
\* filters and bulk operations work on.
C14_FilterLeavesStoreUnchanged ==
    [][filters_run' # filters_run => tree_data' = tree_data]_vars

\* The fetched deployments the filter text and the category of the window
\* select.
Selected ==
    {k \in 1..Len(fetched) :
        /\ text_match(fetched[k], LowerStr(filter_var))
        /\ status_match(fetched[k], LowerWord(status_filter))}

\* C15: after filter_deployments has run the rows shown are exactly the
\* fetched deployments that the filter text (a substring of id, ref,
\* environment or state) and the category ("All", "Active" for a state other
\* than "inactive", or the state itself) select, each shown once, no other
\* shown.
C15_ShownAreTheSelected ==
    filters_run > 0 =>
        /\ {tree[k].id : k \in 1..Len(tree)} = {fetched[k].id : k \in Selected}
        /\ \A i, j \in 1..Len(tree) : tree[i].id = tree[j].id => i = j

\* The ids of the stored deployments whose state is, or is not, "inactive".
StoredIds(inactive) ==
    {tree_data[k].id : k \in {j \in 1..Len(tree_data) :
                                 (tree_data[j].state = "inactive") = inactive}}

\* C17: a bulk selects by the stored state at the moment it is asked:
\* mark_all_inactive requests only deployments stored as not "inactive",
\* delete_all_inactive only deployments stored as "inactive"; each selected
\* deployment is attempted exactly once (never twice, and once when the bulk
\* is over); an empty selection issues no request and no confirmation.
C17_SelectedOnceEach ==
    m_kind \in BulkKinds =>
        /\ \A k \in 1..Len(requests) :
            requests[k].id \in StoredIds(m_kind = "delete_all")
        /\ \A i, j \in 1..Len(requests) : requests[i].id = requests[j].id => i = j
        /\ m_pc \in {"notified", "done"} =>
              {requests[k].id : k \in 1..Len(requests)} = StoredIds(m_kind = "delete_all")
        /\ StoredIds(m_kind = "delete_all") = {} => requests = <<>> /\ confirms = <<>>

\* No list task is in progress.
NoListTask == \A t \in ListTasks : lt[t].pc \in {"idle", "done"}
\* The deployments of a sequence of rows or dicts, the row ids left out.
Shown(rows) == [k \in 1..Len(rows) |-> [rows[k] EXCEPT !.row = 0]]

\* C13: each list operation fully replaces the local state: whenever no list
\* task is in progress, tree_data and the rows shown hold exactly the
\* deployments the most recently completed list fetch returned, each once,
\* nothing left over from earlier fetches, for every interleaving of list
\* tasks.
C13_ListReplacesLocalState ==
    NoListTask /\ (\E t \in ListTasks : lt[t].pc = "done") =>
        /\ Shown(tree) = Shown(fetched)
        /\ Shown(tree_data) = Shown(fetched)

\* C18: in every reachable state each row shown in the tree has an entry in
\* tree_data under its row id, so a click on a visible row resolves to its
\* deployment.
C18_ShownRowHasEntry ==
    \A k \in 1..Len(tree) : \E j \in 1..Len(tree_data) : tree_data[j].row = tree[k].row

====
